---------------------------- MODULE Spec2Model ----------------------------
(***************************************************************************)
(* A model of the easy-chat proxy (easy-chat-proxy/api/index.ts): the chat *)
(* handler with its rate limiter, content validator, prompt composer,      *)
(* upstream call and interaction log; the payment webhook that issues      *)
(* licenses (api/stripe-webhook) and the checkout-session handler that     *)
(* precedes it; the CORS middleware (api/cors.ts); and the chat widget     *)
(* (easy-chat-lib/src/components/EasyChat.tsx).                            *)
(*                                                                         *)
(* Strings are sequences of characters (one-character TLA+ strings, or one *)
(* token standing for a fixed run of text).  An optional value (a header,  *)
(* a body field, a local not yet assigned) is None or Some(v).             *)
(***************************************************************************)
EXTENDS Integers, Sequences, FiniteSets, TLC

VARIABLES
    now,                \* Date.now(), in milliseconds
    cachedDb,           \* the module-level cachedDb: None or Some(handle)
    opened,             \* number of MongoClient connections opened so far
    interactions,       \* the 'interactions' collection, in insertion order
    licenses,           \* the 'licenses' collection, in insertion order
    env,                \* process.env: which secrets are set
    reqs,               \* one handler invocation per request id
    text,               \* isValidContent: its argument
    verdict,            \* isValidContent: None, or Some(result)
    systemPrompt,       \* prompt composition: the body's systemPrompt
    finalSystemPrompt,  \* prompt composition: None, or Some(composed prompt)
    hooks,              \* one webhook handler invocation per delivery id
    cors,               \* runCorsMiddleware: its request and the headers it set
    checkouts,          \* one checkout-session handler invocation per id
    sessions,           \* the payment provider's checkout sessions
    widget              \* the React state of the EasyChat component

vars == <<now, cachedDb, opened, interactions, licenses, env, reqs,
          text, verdict, systemPrompt, finalSystemPrompt, hooks, cors,
          checkouts, sessions, widget>>

None == <<>>
Some(v) == <<v>>
Get(o) == o[1]

(***************************************************************************)
(* Bounds of the model.                                                    *)
(***************************************************************************)
MaxUnit == 2        \* isValidContent inputs: length of the repeated unit
MaxRep == 11        \* isValidContent inputs: repetitions of the unit
MaxPersona == 4     \* prompt composition: length of the persona text
ClockStep == 1500   \* milliseconds the clock advances in one step
MaxTime == 3000     \* the clock stops advancing here

(***************************************************************************)
(* Characters.                                                             *)
(***************************************************************************)
LineTerminators == {"\n"}
Whitespace == {" ", "\n"}
Digits == {"1", "2"}
Letters == {"a", "k"}
Vowels == {"a"}
Alphabet == Letters \cup Digits \cup Whitespace

IsLetter(c) == c \in Letters
IsVowel(c) == c \in Vowels

RECURSIVE TrimStart(_)
TrimStart(s) ==
    IF s # <<>> /\ Head(s) \in Whitespace THEN TrimStart(Tail(s)) ELSE s

RECURSIVE TrimEnd(_)
TrimEnd(s) ==
    IF s # <<>> /\ s[Len(s)] \in Whitespace
    THEN TrimEnd(SubSeq(s, 1, Len(s) - 1))
    ELSE s

Trim(s) == TrimEnd(TrimStart(s))

(***************************************************************************)
(* isValidContent (index.ts 38-68).                                        *)
(***************************************************************************)
MIN_LENGTH == 2         \* trimmed.length < 2
MAX_DIGITS == 6         \* trimmed.length > 6
REPEAT_MORE == 4        \* \1{4,}
MAX_TOKEN == 20         \* trimmed.length > 20
MIN_ALPHA == 5          \* alphaOnly.length > 5
RATIO_DENOM == 10       \* ratio < 0.1

\* /^\d+$/.test(s)
OnlyDigits(s) == s # <<>> /\ \A i \in 1..Len(s) : s[i] \in Digits

\* /(.)\1{4,}/.test(s): '.' matches any character but a line terminator
HasRepeatedRun(s) ==
    \E i \in 1..(Len(s) - REPEAT_MORE) :
        /\ s[i] \notin LineTerminators
        /\ \A j \in 1..REPEAT_MORE : s[i + j] = s[i]

\* /\s/.test(s)
HasWhitespace(s) == \E i \in 1..Len(s) : s[i] \in Whitespace

\* s.replace(/[^a-zA-Z]/g, '')
AlphaOnly(s) == SelectSeq(s, IsLetter)

\* (alphaOnly.match(/[aeiouAEIOU]/g) || []).length
VowelsCount(s) == Len(SelectSeq(s, IsVowel))

\* vowelsCount / alphaOnly.length < 0.1; the quotient of integers v / n is
\* below the double 0.1 exactly when 10 * v < n
LowVowelRatio(alphaOnly) ==
    VowelsCount(alphaOnly) * RATIO_DENOM < Len(alphaOnly)

isValidContent(t) ==
    IF t = <<>> THEN FALSE
    ELSE LET trimmed == Trim(t)
             alphaOnly == AlphaOnly(trimmed)
         IN  IF Len(trimmed) < MIN_LENGTH THEN FALSE
             ELSE IF OnlyDigits(trimmed) /\ Len(trimmed) > MAX_DIGITS THEN FALSE
             ELSE IF HasRepeatedRun(trimmed) THEN FALSE
             ELSE IF Len(trimmed) > MAX_TOKEN /\ ~HasWhitespace(trimmed) THEN FALSE
             ELSE IF Len(alphaOnly) > MIN_ALPHA /\ LowVowelRatio(alphaOnly) THEN FALSE
             ELSE TRUE

(***************************************************************************)
(* Prompt composition (index.ts 71-77, 166-168).                           *)
(***************************************************************************)
\* the master instruction after .trim(): five lines, no blank line, no
\* leading or trailing line break
MASTER_INSTRUCTION ==
    <<"DIRETRIZES MESTRAS", "\n", "1.", "\n", "2.", "\n", "3.", "\n", "4.">>

CONTEXT_HEADER == "--- CONTEXTO ESPECIFICO DO USUARIO ---"

\* `\n\n--- CONTEXTO ESPECÍFICO DO USUÁRIO ---\n`
Delimiter == <<"\n", "\n", CONTEXT_HEADER, "\n">>

DEFAULT_CONTEXT == <<"assistente virtual">>

\* a variant that trims the caller's text
userSystemContext_Trimmed(sp) ==
    IF sp = None \/ Trim(Get(sp)) = <<>> THEN DEFAULT_CONTEXT ELSE Trim(Get(sp))

\* systemPrompt || "Você é um assistente virtual útil."
userSystemContext(sp) ==
    IF sp = None \/ Get(sp) = <<>> THEN DEFAULT_CONTEXT ELSE Get(sp)

ComposePrompt(sp) == MASTER_INSTRUCTION \o Delimiter \o userSystemContext(sp)

(***************************************************************************)
(* Requests (index.ts 20-23, 26-32, 105-106, 126-128, 151).                *)
(***************************************************************************)
\* r1 sends any of the requests below; r2 is a second client that sends
\* well-formed chat messages from either address
Reqs == {"r1", "r2"}

Methods == {"POST", "OPTIONS", "GET"}

HTTPS == "https://"
HTTP == "http://"
SLASH == "/"

\* the headers the handler reads: x-custom-api-key, x-license-key, referer,
\* origin, x-forwarded-for, and the socket's remoteAddress
Headers(custom, license, referer, origin, forwarded, remote) ==
    [custom |-> custom, license |-> license, referer |-> referer,
     origin |-> origin, forwarded |-> forwarded, remote |-> remote]

ORIGIN_EXAMPLE == Some(<<HTTPS, "example.com">>)
ORIGIN_OTHER == Some(<<HTTPS, "other.com">>)
FORWARDED_1 == Some(<<"ip1", ",", " ", "ip9">>)
REMOTE_2 == Some(<<"ip2">>)
REMOTE_9 == Some(<<"ip9">>)

HeaderSets ==
    { Headers(None, None, None, ORIGIN_EXAMPLE, FORWARDED_1, REMOTE_9),
      Headers(None, None, None, ORIGIN_EXAMPLE, None, REMOTE_2),
      Headers(Some("sk-user"), None, None, ORIGIN_EXAMPLE, FORWARDED_1, REMOTE_9),
      Headers(None, Some("EC-A"), None, ORIGIN_EXAMPLE, FORWARDED_1, REMOTE_9),
      Headers(None, Some("EC-A"), None, ORIGIN_OTHER, FORWARDED_1, REMOTE_9),
      Headers(None, Some("EC-X"), None, ORIGIN_EXAMPLE, FORWARDED_1, REMOTE_9),
      Headers(Some("sk-user"), Some("EC-A"), None, ORIGIN_EXAMPLE, None, REMOTE_2),
      Headers(None, Some("EC-A"), Some(<<HTTPS, "example.com", SLASH>>), ORIGIN_OTHER,
              None, REMOTE_2) }

NoHeaders ==
    [custom |-> None, license |-> None, referer |-> None, origin |-> None,
     forwarded |-> None, remote |-> None]

Msg(role, content) == [role |-> role, content |-> content]

Histories ==
    { <<>>,
      << Msg("user", <<"a", "k">>) >>,
      << Msg("user", <<"k">>) >>,
      << Msg("user", <<"k">>), Msg("assistant", <<"k">>) >>,
      << Msg("system", <<"a", "k">>), Msg("user", <<"a", "k">>) >> }

\* request.body: None when the request has no body; messages is undefined,
\* a value that is no array, or an array
Bodies ==
    {None}
    \cup { Some([messages |-> [type |-> ty, items |-> <<>>], systemPrompt |-> None]) :
            ty \in {"undefined", "string"} }
    \cup { Some([messages |-> [type |-> "array", items |-> h], systemPrompt |-> None]) :
            h \in Histories }
    \cup { Some([messages |-> [type |-> "array", items |-> << Msg("user", <<"a", "k">>) >>],
                 systemPrompt |-> Some(p)]) :
            p \in {<<"persona">>} }

PlainHeaderSets ==
    { h \in HeaderSets : h.custom = None /\ h.license = None }

PlainBodies ==
    { Some([messages |-> [type |-> "array", items |-> << Msg("user", <<"a", "k">>) >>],
            systemPrompt |-> None]) }

MethodsOf(r) == IF r = "r1" THEN Methods ELSE {"POST"}
HeaderSetsOf(r) == IF r = "r1" THEN HeaderSets ELSE PlainHeaderSets
BodiesOf(r) == IF r = "r1" THEN Bodies ELSE PlainBodies

\* getClientIp (index.ts 26-32)
RECURSIVE FirstSegment(_)
FirstSegment(s) ==
    IF s = <<>> \/ Head(s) = "," THEN <<>>
    ELSE <<Head(s)>> \o FirstSegment(Tail(s))

UNKNOWN == <<"unknown">>

getClientIp(h) ==
    IF h.forwarded # None THEN Trim(FirstSegment(Get(h.forwarded)))
    ELSE IF h.remote # None /\ Get(h.remote) # <<>> THEN Get(h.remote)
    ELSE UNKNOWN

\* request.headers['referer'] || request.headers['origin'] || 'unknown'
originUrlOf(h) ==
    IF h.referer # None /\ Get(h.referer) # <<>> THEN Get(h.referer)
    ELSE IF h.origin # None /\ Get(h.origin) # <<>> THEN Get(h.origin)
    ELSE UNKNOWN

\* index.ts 108-123
usageTypeOf(h) ==
    IF h.custom # None THEN "custom_key"
    ELSE IF h.license # None THEN "license_plan"
    ELSE "free_tier"

ENV_OPENAI_KEY == "sk-env"

targetApiKeyOf(h) == IF h.custom # None THEN Get(h.custom) ELSE ENV_OPENAI_KEY

(***************************************************************************)
(* Responses.                                                              *)
(***************************************************************************)
REFUSAL == "Sua mensagem parece invalida ou spam. Tente reformular."
REPLY == "completion.choices[0].message.content"

Response(status, key, body) == [status |-> status, key |-> key, body |-> body]

(***************************************************************************)
(* The state of one handler invocation: where it is suspended (pc), what   *)
(* it has read from the request, its locals, the upstream call it issued   *)
(* and the response it sent.                                               *)
(***************************************************************************)
IdleReq ==
    [pc |-> "idle", method |-> "", headers |-> NoHeaders,
     usageType |-> None, targetApiKey |-> None,
     originUrl |-> None, clientIp |-> None, limitError |-> FALSE,
     body |-> None, upstream |-> None, reply |-> None, error |-> None,
     logTs |-> None, resp |-> None]

\* response.status(s).json(...) / .end(), and the handler returns
Respond(q, status, key, body) ==
    [q EXCEPT !.pc = "done", !.logTs = None,
              !.resp = Some(Response(status, key, body))]

(***************************************************************************)
(* connectToDatabase (index.ts 5-18).  The call runs synchronously up to   *)
(* its first await: with a cached handle the caller goes on to its query,  *)
(* otherwise MongoClient.connect is in flight.                             *)
(***************************************************************************)
\* a variant that hands out the cached value without looking at it
connectToDatabase_NoRetry(db, connected, connecting) == connected

connectToDatabase(db, connected, connecting) ==
    IF db # None THEN connected ELSE connecting

(***************************************************************************)
(* The outer catch (index.ts 210-226): log the error, then answer 500.     *)
(***************************************************************************)
\* `Erro interno no Proxy: ${error.message}`
ProxyErrorBody(message) ==
    CASE message = "upstream error" -> "Erro interno no Proxy: upstream error"
      [] message = "TypeError" -> "Erro interno no Proxy: TypeError"
      [] OTHER -> "Erro interno no Proxy: error"

\* a variant that answers with a fixed text
InternalError_Masked(q) ==
    Respond(q, 500, "error", "Erro interno no Proxy")

\* return response.status(500).json({ error: `Erro interno no Proxy: ...` })
InternalError(q) ==
    Respond(q, 500, "error", ProxyErrorBody(Get(q.error)))

CatchError(q, message, db, t) ==
    LET stage == connectToDatabase(db, "err_insert", "err_connect")
    IN  [q EXCEPT !.pc = stage,
                  !.error = Some(message),
                  !.logTs = IF stage = "err_insert" THEN Some(t) ELSE None]

(***************************************************************************)
(* The success log is best effort (index.ts 187-208): its catch prints the *)
(* error and the handler goes on to answer with the reply.                 *)
(***************************************************************************)
\* a variant that surfaces the logging failure to the caller
OnDbError_Surfaced(q) ==
    Respond(q, 500, "error", ProxyErrorBody("db error"))

\* catch (dbError) { console.error(...) }  return ...json({ content: reply })
OnDbError(q) ==
    Respond(q, 200, "content", Get(q.reply))

(***************************************************************************)
(* index.ts 150-181: body validation, content validation, prompt           *)
(* composition and the call of the completion API.  b is request.body.     *)
(***************************************************************************)
InvalidHistory(messages) ==
    \/ messages.type = "undefined"
    \/ messages.type # "array"
    \/ Len(messages.items) = 0

\* a variant that validates the last message whoever wrote it
ContentRejected_AnyRole(lastMessage) ==
    ~isValidContent(lastMessage.content)

\* a variant that validates the messages of the assistant instead
ContentRejected_WrongRole(lastMessage) ==
    lastMessage.role = "assistant" /\ ~isValidContent(lastMessage.content)

\* lastMessage.role === 'user' && !isValidContent(String(lastMessage.content || ''))
ContentRejected(lastMessage) ==
    lastMessage.role = "user" /\ ~isValidContent(lastMessage.content)

\* the messages handed to openai.chat.completions.create
UpstreamMessages(sp, messages) ==
    << Msg("system", ComposePrompt(sp)) >> \o messages

ProcessMessage(q, b, db, t) ==
    LET q1 == [q EXCEPT !.body = Some(b)]
    IN  IF b = None
        THEN CatchError(q1, "TypeError", db, t)
        ELSE LET messages == Get(b).messages
                 lastMessage == messages.items[Len(messages.items)]
             IN  IF InvalidHistory(messages)
                 THEN Respond(q1, 400, "error", "Historico de chat invalido.")
                 ELSE IF ContentRejected(lastMessage)
                 THEN Respond(q1, 200, "content", REFUSAL)
                 ELSE [q1 EXCEPT
                         !.pc = "upstream",
                         !.upstream =
                            Some([apiKey |-> Get(q.targetApiKey),
                                  model |-> "gpt-3.5-turbo",
                                  messages |->
                                     UpstreamMessages(Get(b).systemPrompt,
                                                      messages.items)])]

(***************************************************************************)
(* Rate limiting (index.ts 130-148).                                       *)
(***************************************************************************)
RATE_LIMIT_MS == 3000

\* findOne({client_ip}, {sort: {timestamp: -1}}): the latest record of the IP
RecordsOf(log, ip) == { i \in 1..Len(log) : log[i].client_ip = ip }

LatestOf(log, ip) ==
    CHOOSE i \in RecordsOf(log, ip) :
        \A j \in RecordsOf(log, ip) : log[j].timestamp <= log[i].timestamp

findOne(log, ip) ==
    IF RecordsOf(log, ip) = {}
    THEN [found |-> FALSE, timestamp |-> 0]
    ELSE [found |-> TRUE, timestamp |-> log[LatestOf(log, ip)].timestamp]

\* a variant that never throttles
TooFast_Never(timeDiff) == FALSE

\* a variant with an inclusive threshold
TooFast_Inclusive(timeDiff) == timeDiff <= RATE_LIMIT_MS

\* timeDiff < 3000
TooFast(timeDiff) == timeDiff < RATE_LIMIT_MS

\* a variant without the inner try: the outer catch takes the error
OnLimitError_Rethrow(q, b, db, t) ==
    CatchError([q EXCEPT !.limitError = TRUE], "limit error", db, t)

\* the catch of the rate-limit block: console.error, and the handler goes on
OnLimitError(q, b, db, t) ==
    ProcessMessage([q EXCEPT !.limitError = TRUE], b, db, t)

(***************************************************************************)
(* The interaction records (index.ts 190-203, 216-221).  A field the       *)
(* record does not have is None.                                           *)
(***************************************************************************)
SuccessRecord(q) ==
    [timestamp |-> Get(q.logTs), status |-> "success",
     usage_type |-> q.usageType, license_key |-> q.headers.license,
     client_ip |-> Get(q.clientIp), client_origin |-> q.originUrl,
     error_message |-> None]

ErrorRecord(q) ==
    [timestamp |-> Get(q.logTs), status |-> "error",
     usage_type |-> None, license_key |-> None,
     client_ip |-> getClientIp(q.headers), client_origin |-> None,
     error_message |-> q.error]

(***************************************************************************)
(* The domain normalisation of checkout-session creation                   *)
(* (unnamed/part_001 60): domain.replace(/^https?:\/\//, '')               *)
(*                              .replace(/\/$/, '')                        *)
(***************************************************************************)
StripScheme(s) ==
    IF s # <<>> /\ Head(s) \in {HTTP, HTTPS} THEN Tail(s) ELSE s

\* the scheme tokens end in a slash themselves
StripTrailingSlash(s) ==
    IF s = <<>> THEN s
    ELSE IF s[Len(s)] = SLASH THEN SubSeq(s, 1, Len(s) - 1)
    ELSE IF s[Len(s)] = HTTPS THEN SubSeq(s, 1, Len(s) - 1) \o <<"https:/">>
    ELSE IF s[Len(s)] = HTTP THEN SubSeq(s, 1, Len(s) - 1) \o <<"http:/">>
    ELSE s

\* a variant that removes the scheme only
cleanDomain_SchemeOnly(domain) == StripScheme(domain)

cleanDomain(domain) == StripTrailingSlash(StripScheme(domain))

(***************************************************************************)
(* A license as the webhook issues it (unnamed/part_002 54-62).            *)
(***************************************************************************)
IssuedLicense(key, email, targetDomain, session, t) ==
    [key |-> key, email |-> email, status |-> "active", plan |-> "pro",
     created_at |-> t,
     allowed_domains |-> <<targetDomain, <<"localhost">>, <<"127.0.0.1">> >>,
     stripe_session_id |-> session]

(***************************************************************************)
(* The payment webhook (unnamed/part_002).  A delivery carries a method,   *)
(* the raw body and the stripe-signature header.  The signature scheme is  *)
(* modelled as a pairing of the signed payload with the signing secret, so *)
(* that a signature verifies for one payload and one secret only.          *)
(***************************************************************************)
Deliveries == {"d1", "d2"}

WEBHOOK_SECRET == "STRIPE_WEBHOOK_SECRET"
FORGED_SECRET == "whsec_forged"

COMPLETED == "checkout.session.completed"
OTHER_EVENT == "payment_intent.succeeded"

SHOP_DOMAIN == <<"shop.example">>

\* event.type, and of event.data.object: id, metadata?.target_domain,
\* customer_details?.email
Events ==
    [type : {COMPLETED, OTHER_EVENT},
     id : {"cs_1", "cs_2"},
     target_domain : {None, Some(<<>>), Some(SHOP_DOMAIN)},
     email : {"a@example.com"}]

Sign(payload, secret) == [payload |-> payload, secret |-> secret]

\* the stripe-signature headers a delivery of payload may carry: none, the
\* provider's, one made with another secret, one made for another payload
SignaturesOf(payload) ==
    { None, Some(Sign(payload, WEBHOOK_SECRET)), Some(Sign(payload, FORGED_SECRET)) }
    \cup { Some(Sign([payload EXCEPT !.target_domain = Some(SHOP_DOMAIN)],
                     WEBHOOK_SECRET)) }

\* a variant that parses the payload without checking the signature
constructEvent_Unchecked(buf, sig, secret) == Some(buf)

\* stripe.webhooks.constructEvent(buf, sig, webhookSecret): Some(event), or
\* None when it throws
constructEvent(buf, sig, secret) ==
    IF sig # None /\ Get(sig) = Sign(buf, secret) THEN Some(buf) ELSE None

\* 'EC-' + crypto.randomBytes(12).toString('hex').toUpperCase(): the values
\* the generator can return; nothing keeps two calls from returning the same
generateLicenseKey == {"EC-0A", "EC-0B"}

IdleHook ==
    [pc |-> "idle", method |-> "", buf |-> None, sig |-> None,
     event |-> None, key |-> None, created |-> None, resp |-> None]

\* res.status(s).end() / .send(...) / res.json(...), and the handler returns
HookRespond(h, status, body) ==
    [h EXCEPT !.pc = "done", !.resp = Some([status |-> status, body |-> body])]

\* a variant that acknowledges the event although the await rejected
HookThrow_Acknowledged(h) ==
    [h EXCEPT !.pc = "done",
              !.resp = Some([status |-> 200, body |-> "received"])]

\* an await of the handler rejects outside any try: the handler throws and
\* sends nothing
HookThrow(h) == [h EXCEPT !.pc = "threw"]

\* generateLicenseKey() and the start of insertOne (part_002 51-62)
StartInsert(h, key, t) ==
    [h EXCEPT !.pc = "insert", !.key = Some(key), !.created = Some(t)]

\* if (targetDomain)
HasTargetDomain(event) ==
    event.target_domain # None /\ Get(event.target_domain) # <<>>

(***************************************************************************)
(* runCorsMiddleware (easy-chat-proxy/api/cors.ts).                        *)
(***************************************************************************)
allowedOrigins ==
    << <<HTTPS, "easychat.ia.br">>,
       <<HTTPS, "www.", "easychat.ia.br">>,
       <<HTTPS, "easychat-landing-page.vercel.app">>,
       <<HTTP, "localhost", ":5173">>,
       <<HTTP, "localhost", ":8080">>,
       <<HTTP, "localhost", ":3000">> >>

includes(list, x) == \E i \in 1..Len(list) : list[i] = x

\* a variant that accepts any origin that starts like an allowed one
OriginAllowed_Prefix(origin) ==
    /\ origin # None
    /\ \E i \in 1..Len(allowedOrigins) :
          /\ Len(Get(origin)) >= Len(allowedOrigins[i])
          /\ SubSeq(Get(origin), 1, Len(allowedOrigins[i])) = allowedOrigins[i]

\* origin && allowedOrigins.includes(origin)
OriginAllowed(origin) ==
    origin # None /\ Get(origin) # <<>> /\ includes(allowedOrigins, Get(origin))

NULL_ORIGIN == <<"null">>

\* the headers set on res, whether res.status(200).end() ran, and the
\* value returned
runCorsMiddleware(req) ==
    [allowOrigin |-> IF OriginAllowed(req.origin) THEN Get(req.origin)
                     ELSE NULL_ORIGIN,
     allowCredentials |-> "true",
     status |-> IF req.method = "OPTIONS" THEN Some(200) ELSE None,
     returned |-> (req.method = "OPTIONS")]

IdleCors == [req |-> [origin |-> None, method |-> ""], res |-> None]

(***************************************************************************)
(* The checkout-session handler (unnamed/part_001 46-81).                  *)
(***************************************************************************)
Checkouts == {"c1"}

IdleCheckout ==
    [pc |-> "idle", method |-> "", body |-> None, cleanDomain |-> None,
     session |-> None, resp |-> None]

(***************************************************************************)
(* The chat widget (EasyChat.tsx 645-660): the state of the component      *)
(* after its first render.  timers holds the pending 300 ms timers of      *)
(* closeChat, oldest first, each with the number of openChat calls made    *)
(* before it was scheduled; opens counts the openChat calls; pending holds *)
(* the sends whose reply has not been handled; sends records, for every    *)
(* send that set isLoading, the roles of the messages appended for it and  *)
(* whether it has set isLoading back; notices counts the pending 200 ms    *)
(* timers of the configuration error.  messages keeps the role of each     *)
(* message.                                                                *)
(***************************************************************************)
\* the props of the component: which of them are set
NoConfig ==
    [apiKey |-> FALSE, licenseKey |-> FALSE, proxyUrl |-> FALSE,
     isPlayground |-> FALSE]

IdleWidget ==
    [isOpen |-> FALSE, isClosing |-> FALSE, timers |-> <<>>, opens |-> 0,
     input |-> <<>>, isLoading |-> FALSE, messages |-> <<"assistant">>,
     pending |-> <<>>, sends |-> <<>>, notices |-> 0, config |-> NoConfig]

\* the parts of the state that the handlers of one specification leave alone
OthersIdle ==
    /\ checkouts = [c \in Checkouts |-> IdleCheckout]
    /\ sessions = <<>>
    /\ widget = IdleWidget

(***************************************************************************)
(* Initial state: no request has arrived, no connection is cached, the     *)
(* interaction log is empty, and the license store holds one license       *)
(* issued earlier.                                                         *)
(***************************************************************************)
Envs == [MONGODB_URI : BOOLEAN, OPENAI_API_KEY : BOOLEAN]

\* a variant that checks the database connection string only
ConfigError_MongoOnly(e) == ~e.MONGODB_URI

\* !envMongoUri || !envOpenAiKey
ConfigError(e) == ~e.MONGODB_URI \/ ~e.OPENAI_API_KEY

PureIdle ==
    /\ text = <<>>
    /\ verdict = None
    /\ systemPrompt = None
    /\ finalSystemPrompt = None
    /\ hooks = [d \in Deliveries |-> IdleHook]
    /\ cors = IdleCors
    /\ OthersIdle

Init ==
    /\ now = 0
    /\ cachedDb = None
    /\ opened = 0
    /\ interactions = <<>>
    /\ licenses = << IssuedLicense("EC-A", "a@example.com", <<"example.com">>, "cs_1", 0) >>
    /\ env \in Envs
    /\ reqs = [r \in Reqs |-> IdleReq]
    /\ PureIdle

(***************************************************************************)
(* handler, from its entry to its first await (index.ts 79-133).           *)
(***************************************************************************)
Receive(r) ==
    /\ reqs[r].pc = "idle"
    /\ \E m \in MethodsOf(r), h \in HeaderSetsOf(r) :
          LET q == [reqs[r] EXCEPT !.method = m]
          IN  reqs' = [reqs EXCEPT ![r] =
                 IF m = "OPTIONS"
                 THEN Respond(q, 200, "none", "")
                 ELSE IF m # "POST"
                 THEN Respond(q, 405, "error", "Method not allowed")
                 ELSE IF ConfigError(env)
                 THEN Respond(q, 500, "error", "Server configuration error.")
                 ELSE [q EXCEPT
                         !.headers = h,
                         !.targetApiKey = Some(targetApiKeyOf(h)),
                         !.usageType = Some(usageTypeOf(h)),
                         !.originUrl = Some(originUrlOf(h)),
                         !.clientIp = Some(getClientIp(h)),
                         !.pc = connectToDatabase(cachedDb, "rl_find", "rl_connect")]]
    /\ UNCHANGED <<now, cachedDb, opened, interactions, licenses, env,
                   text, verdict, systemPrompt, finalSystemPrompt,
                   hooks, cors,
                   checkouts, sessions, widget>>

(***************************************************************************)
(* MongoClient.connect settles (index.ts 10-17) for a handler waiting in   *)
(* the rate limiter, the success log or the error log.                     *)
(***************************************************************************)
ConnectResolved(r) ==
    /\ reqs[r].pc \in {"rl_connect", "log_connect", "err_connect"}
    /\ cachedDb' = Some(opened + 1)
    /\ opened' = opened + 1
    /\ reqs' = [reqs EXCEPT ![r] =
          IF reqs[r].pc = "rl_connect" THEN [@ EXCEPT !.pc = "rl_find"]
          ELSE IF reqs[r].pc = "log_connect"
          THEN [@ EXCEPT !.pc = "log_insert", !.logTs = Some(now)]
          ELSE [@ EXCEPT !.pc = "err_insert", !.logTs = Some(now)]]
    /\ UNCHANGED <<now, interactions, licenses, env,
                   text, verdict, systemPrompt, finalSystemPrompt,
                   hooks, cors,
                   checkouts, sessions, widget>>

ConnectRejected(r) ==
    /\ reqs[r].pc \in {"rl_connect", "log_connect", "err_connect"}
    /\ \E b \in BodiesOf(r) :
          reqs' = [reqs EXCEPT ![r] =
             IF reqs[r].pc = "rl_connect"
             THEN OnLimitError(@, b, cachedDb, now)
             ELSE IF reqs[r].pc = "log_connect"
             THEN OnDbError(@)
             ELSE InternalError(@)]
    /\ UNCHANGED <<now, cachedDb, opened, interactions, licenses, env,
                   text, verdict, systemPrompt, finalSystemPrompt,
                   hooks, cors,
                   checkouts, sessions, widget>>

(***************************************************************************)
(* findOne settles (index.ts 133-148).                                     *)
(***************************************************************************)
RateLimitFound(r) ==
    /\ reqs[r].pc = "rl_find"
    /\ \E b \in BodiesOf(r) :
          LET lastInteraction == findOne(interactions, Get(reqs[r].clientIp))
              timeDiff == now - lastInteraction.timestamp
          IN  reqs' = [reqs EXCEPT ![r] =
                 IF lastInteraction.found /\ TooFast(timeDiff)
                 THEN Respond(@, 429, "error", "Calma!")
                 ELSE ProcessMessage(@, b, cachedDb, now)]
    /\ UNCHANGED <<now, cachedDb, opened, interactions, licenses, env,
                   text, verdict, systemPrompt, finalSystemPrompt,
                   hooks, cors,
                   checkouts, sessions, widget>>

RateLimitFailed(r) ==
    /\ reqs[r].pc = "rl_find"
    /\ \E b \in BodiesOf(r) :
          reqs' = [reqs EXCEPT ![r] = OnLimitError(@, b, cachedDb, now)]
    /\ UNCHANGED <<now, cachedDb, opened, interactions, licenses, env,
                   text, verdict, systemPrompt, finalSystemPrompt,
                   hooks, cors,
                   checkouts, sessions, widget>>

(***************************************************************************)
(* openai.chat.completions.create settles (index.ts 174-189, 210-216).     *)
(***************************************************************************)
UpstreamReturned(r) ==
    /\ reqs[r].pc = "upstream"
    /\ LET stage == connectToDatabase(cachedDb, "log_insert", "log_connect")
       IN  reqs' = [reqs EXCEPT ![r] =
              [@ EXCEPT !.reply = Some(REPLY),
                        !.pc = stage,
                        !.logTs = IF stage = "log_insert" THEN Some(now) ELSE None]]
    /\ UNCHANGED <<now, cachedDb, opened, interactions, licenses, env,
                   text, verdict, systemPrompt, finalSystemPrompt,
                   hooks, cors,
                   checkouts, sessions, widget>>

UpstreamFailed(r) ==
    /\ reqs[r].pc = "upstream"
    /\ reqs' = [reqs EXCEPT ![r] = CatchError(@, "upstream error", cachedDb, now)]
    /\ UNCHANGED <<now, cachedDb, opened, interactions, licenses, env,
                   text, verdict, systemPrompt, finalSystemPrompt,
                   hooks, cors,
                   checkouts, sessions, widget>>

(***************************************************************************)
(* insertOne settles (index.ts 190-208, 216-225).                          *)
(***************************************************************************)
InsertResolved(r) ==
    /\ reqs[r].pc \in {"log_insert", "err_insert"}
    /\ interactions' = Append(interactions,
          IF reqs[r].pc = "log_insert"
          THEN SuccessRecord(reqs[r]) ELSE ErrorRecord(reqs[r]))
    /\ reqs' = [reqs EXCEPT ![r] =
          IF reqs[r].pc = "log_insert"
          THEN Respond(@, 200, "content", REPLY)
          ELSE InternalError(@)]
    /\ UNCHANGED <<now, cachedDb, opened, licenses, env,
                   text, verdict, systemPrompt, finalSystemPrompt,
                   hooks, cors,
                   checkouts, sessions, widget>>

InsertRejected(r) ==
    /\ reqs[r].pc \in {"log_insert", "err_insert"}
    /\ reqs' = [reqs EXCEPT ![r] =
          IF reqs[r].pc = "log_insert"
          THEN OnDbError(@)
          ELSE InternalError(@)]
    /\ UNCHANGED <<now, cachedDb, opened, interactions, licenses, env,
                   text, verdict, systemPrompt, finalSystemPrompt,
                   hooks, cors,
                   checkouts, sessions, widget>>

(***************************************************************************)
(* Time passes.                                                            *)
(***************************************************************************)
Tick ==
    /\ now + ClockStep <= MaxTime
    /\ now' = now + ClockStep
    /\ UNCHANGED <<cachedDb, opened, interactions, licenses, env, reqs,
                   text, verdict, systemPrompt, finalSystemPrompt,
                   hooks, cors,
                   checkouts, sessions, widget>>

Next ==
    \/ \E r \in Reqs : Receive(r)
    \/ \E r \in Reqs : ConnectResolved(r)
    \/ \E r \in Reqs : ConnectRejected(r)
    \/ \E r \in Reqs : RateLimitFound(r)
    \/ \E r \in Reqs : RateLimitFailed(r)
    \/ \E r \in Reqs : UpstreamReturned(r)
    \/ \E r \in Reqs : UpstreamFailed(r)
    \/ \E r \in Reqs : InsertResolved(r)
    \/ \E r \in Reqs : InsertRejected(r)
    \/ Tick

Spec == Init /\ [][Next]_vars

(***************************************************************************)
(* isValidContent on its own: the argument is any text                     *)
(* prefix \o unit^k \o suffix over the alphabet, which reaches every rule  *)
(* and both sides of every threshold.                                      *)
(***************************************************************************)
SeqsUpTo(S, n) == UNION { [1..m -> S] : m \in 0..n }

RECURSIVE Rep(_, _)
Rep(unit, k) == IF k = 0 THEN <<>> ELSE unit \o Rep(unit, k - 1)

Texts ==
    { pre \o Rep(unit, k) \o post :
        pre \in SeqsUpTo(Alphabet, 1), post \in SeqsUpTo(Alphabet, 1),
        unit \in SeqsUpTo(Alphabet, MaxUnit) \ {<<>>}, k \in 0..MaxRep }

HandlerIdle ==
    /\ now = 0
    /\ cachedDb = None
    /\ opened = 0
    /\ interactions = <<>>
    /\ licenses = <<>>
    /\ env = [MONGODB_URI |-> TRUE, OPENAI_API_KEY |-> TRUE]
    /\ reqs = [r \in Reqs |-> IdleReq]
    /\ hooks = [d \in Deliveries |-> IdleHook]
    /\ cors = IdleCors
    /\ OthersIdle

InitContent ==
    /\ HandlerIdle
    /\ text \in Texts
    /\ verdict = None
    /\ systemPrompt = None
    /\ finalSystemPrompt = None

Validate ==
    /\ verdict = None
    /\ verdict' = Some(isValidContent(text))
    /\ UNCHANGED <<now, cachedDb, opened, interactions, licenses, env, reqs,
                   text, systemPrompt, finalSystemPrompt,
                   hooks, cors,
                   checkouts, sessions, widget>>

NextContent == Validate

SpecContent == InitContent /\ [][NextContent]_vars

(***************************************************************************)
(* Prompt composition on its own: systemPrompt is absent, or any text over *)
(* characters that include those of the master instruction and of the      *)
(* delimiter.                                                              *)
(***************************************************************************)
PersonaAlphabet == {"p", "\n", CONTEXT_HEADER, "4."}

SystemPrompts ==
    {None} \cup { Some(p) : p \in SeqsUpTo(PersonaAlphabet, MaxPersona) }

InitPrompt ==
    /\ HandlerIdle
    /\ text = <<>>
    /\ verdict = None
    /\ systemPrompt \in SystemPrompts
    /\ finalSystemPrompt = None

Compose ==
    /\ finalSystemPrompt = None
    /\ finalSystemPrompt' = Some(ComposePrompt(systemPrompt))
    /\ UNCHANGED <<now, cachedDb, opened, interactions, licenses, env, reqs,
                   text, verdict, systemPrompt,
                   hooks, cors,
                   checkouts, sessions, widget>>

NextPrompt == Compose

SpecPrompt == InitPrompt /\ [][NextPrompt]_vars

(***************************************************************************)
(* The payment webhook on its own (unnamed/part_002 18-69): deliveries     *)
(* arrive and their handlers run concurrently in one process.              *)
(***************************************************************************)
InitWebhook ==
    /\ HandlerIdle
    /\ text = <<>>
    /\ verdict = None
    /\ systemPrompt = None
    /\ finalSystemPrompt = None

\* from the entry to await buffer(req) (part_002 18-30)
HookReceive(d) ==
    /\ hooks[d].pc = "idle"
    /\ \E m \in Methods, payload \in Events :
          \E sig \in SignaturesOf(payload) :
             LET h == [hooks[d] EXCEPT !.method = m]
             IN  hooks' = [hooks EXCEPT ![d] =
                    IF m = "OPTIONS" THEN HookRespond(h, 200, "")
                    ELSE IF m # "POST" THEN HookRespond(h, 405, "")
                    ELSE [h EXCEPT !.pc = "buffer", !.buf = Some(payload),
                                   !.sig = sig]]
    /\ UNCHANGED <<now, cachedDb, opened, interactions, licenses, env, reqs,
                   text, verdict, systemPrompt, finalSystemPrompt, cors,
                   checkouts, sessions, widget>>

\* the body has been read: verification, and the start of the issuance
\* (part_002 31-51)
HookBuffered(d) ==
    /\ hooks[d].pc = "buffer"
    /\ \E key \in generateLicenseKey :
          LET h == hooks[d]
              event == constructEvent(Get(h.buf), h.sig, WEBHOOK_SECRET)
              h1 == [h EXCEPT !.event = event]
          IN  hooks' = [hooks EXCEPT ![d] =
                 IF event = None THEN HookRespond(h, 400, "Webhook Error")
                 ELSE IF Get(event).type = COMPLETED /\ HasTargetDomain(Get(event))
                 THEN IF connectToDatabase(cachedDb, TRUE, FALSE)
                      THEN StartInsert(h1, key, now)
                      ELSE [h1 EXCEPT !.pc = "connect"]
                 ELSE HookRespond(h1, 200, "received")]
    /\ UNCHANGED <<now, cachedDb, opened, interactions, licenses, env, reqs,
                   text, verdict, systemPrompt, finalSystemPrompt, cors,
                   checkouts, sessions, widget>>

\* MongoClient.connect settles (part_000 8-15)
HookConnectResolved(d) ==
    /\ hooks[d].pc = "connect"
    /\ cachedDb' = Some(opened + 1)
    /\ opened' = opened + 1
    /\ \E key \in generateLicenseKey :
          hooks' = [hooks EXCEPT ![d] = StartInsert(@, key, now)]
    /\ UNCHANGED <<now, interactions, licenses, env, reqs,
                   text, verdict, systemPrompt, finalSystemPrompt, cors,
                   checkouts, sessions, widget>>

HookConnectRejected(d) ==
    /\ hooks[d].pc = "connect"
    /\ hooks' = [hooks EXCEPT ![d] = HookThrow(@)]
    /\ UNCHANGED <<now, cachedDb, opened, interactions, licenses, env, reqs,
                   text, verdict, systemPrompt, finalSystemPrompt, cors,
                   checkouts, sessions, widget>>

\* insertOne settles (part_002 54-68)
HookInsertResolved(d) ==
    /\ hooks[d].pc = "insert"
    /\ LET session == Get(hooks[d].event)
       IN  licenses' = Append(licenses,
              IssuedLicense(Get(hooks[d].key), session.email,
                            Get(session.target_domain), session.id,
                            Get(hooks[d].created)))
    /\ hooks' = [hooks EXCEPT ![d] = HookRespond(@, 200, "received")]
    /\ UNCHANGED <<now, cachedDb, opened, interactions, env, reqs,
                   text, verdict, systemPrompt, finalSystemPrompt, cors,
                   checkouts, sessions, widget>>

HookInsertRejected(d) ==
    /\ hooks[d].pc = "insert"
    /\ hooks' = [hooks EXCEPT ![d] = HookThrow(@)]
    /\ UNCHANGED <<now, cachedDb, opened, interactions, licenses, env, reqs,
                   text, verdict, systemPrompt, finalSystemPrompt, cors,
                   checkouts, sessions, widget>>

NextWebhook ==
    \/ \E d \in Deliveries : HookReceive(d)
    \/ \E d \in Deliveries : HookBuffered(d)
    \/ \E d \in Deliveries : HookConnectResolved(d)
    \/ \E d \in Deliveries : HookConnectRejected(d)
    \/ \E d \in Deliveries : HookInsertResolved(d)
    \/ \E d \in Deliveries : HookInsertRejected(d)

SpecWebhook == InitWebhook /\ [][NextWebhook]_vars

(***************************************************************************)
(* runCorsMiddleware on its own: the origin header is absent or any text   *)
(* over pieces of the allowed origins and of foreign ones.                 *)
(***************************************************************************)
MaxOrigin == 3      \* runCorsMiddleware inputs: pieces of the origin header

OriginPieces ==
    {HTTPS, HTTP, "www.", "easychat.ia.br", "localhost", ":5173",
     ".evil.com", "null"}

Origins == {None} \cup { Some(o) : o \in SeqsUpTo(OriginPieces, MaxOrigin) }

InitCors ==
    /\ now = 0 /\ cachedDb = None /\ opened = 0
    /\ interactions = <<>> /\ licenses = <<>>
    /\ env = [MONGODB_URI |-> TRUE, OPENAI_API_KEY |-> TRUE]
    /\ reqs = [r \in Reqs |-> IdleReq]
    /\ text = <<>> /\ verdict = None
    /\ systemPrompt = None /\ finalSystemPrompt = None
    /\ hooks = [d \in Deliveries |-> IdleHook]
    /\ cors \in [req : [origin : Origins, method : Methods], res : {None}]
    /\ OthersIdle

RunCors ==
    /\ cors.res = None
    /\ cors' = [cors EXCEPT !.res = Some(runCorsMiddleware(cors.req))]
    /\ UNCHANGED <<now, cachedDb, opened, interactions, licenses, env, reqs,
                   text, verdict, systemPrompt, finalSystemPrompt, hooks,
                   checkouts, sessions, widget>>

NextCors == RunCors

SpecCors == InitCors /\ [][NextCors]_vars

(***************************************************************************)
(* getClientIp on its own: x-forwarded-for is absent or any text over an   *)
(* address, the comma and the blank; the socket has a peer address, an     *)
(* empty one or none.                                                      *)
(***************************************************************************)
MaxForwarded == 3   \* getClientIp inputs: length of x-forwarded-for

ForwardedAlphabet == {"ip1", ",", " "}

IpHeaderSets ==
    { Headers(None, None, None, None, f, rm) :
        f \in {None} \cup { Some(x) : x \in SeqsUpTo(ForwardedAlphabet, MaxForwarded) },
        rm \in {None, Some(<<>>), REMOTE_2} }

InitClientIp ==
    /\ now = 0 /\ cachedDb = None /\ opened = 0
    /\ interactions = <<>> /\ licenses = <<>>
    /\ env = [MONGODB_URI |-> TRUE, OPENAI_API_KEY |-> TRUE]
    /\ \E h \in IpHeaderSets :
          reqs = [r \in Reqs |-> IF r = "r1" THEN [IdleReq EXCEPT !.headers = h]
                                 ELSE IdleReq]
    /\ PureIdle

\* const clientIp = getClientIp(request)
ResolveClientIp ==
    /\ reqs["r1"].clientIp = None
    /\ reqs' = [reqs EXCEPT !["r1"].clientIp = Some(getClientIp(reqs["r1"].headers))]
    /\ UNCHANGED <<now, cachedDb, opened, interactions, licenses, env,
                   text, verdict, systemPrompt, finalSystemPrompt, hooks, cors,
                   checkouts, sessions, widget>>

NextClientIp == ResolveClientIp

SpecClientIp == InitClientIp /\ [][NextClientIp]_vars

(***************************************************************************)
(* Checkout to license: the checkout-session handler (unnamed/part_001     *)
(* 46-81) creates a session at the payment provider, the provider delivers *)
(* the completion event of a session to the webhook, and the webhook        *)
(* issues the license.                                                     *)
(***************************************************************************)
MaxDomain == 3      \* checkout inputs: pieces of the submitted domain

DomainPieces == {HTTPS, HTTP, "shop.example", SLASH}

\* req.body: None when absent; domain and priceId are undefined or a text
CheckoutBodies ==
    {None}
    \cup { Some([domain |-> d, priceId |-> p]) :
             d \in {None} \cup { Some(x) : x \in SeqsUpTo(DomainPieces, MaxDomain) },
             p \in {None, Some("price_1")} }

CheckoutRespond(k, status, body) ==
    [k EXCEPT !.pc = "done", !.resp = Some([status |-> status, body |-> body])]

\* !domain || !priceId
MissingField(body) ==
    \/ body.domain = None \/ Get(body.domain) = <<>>
    \/ body.priceId = None

SessionId(n) == IF n = 1 THEN "cs_1" ELSE "cs_2"

InitCheckout ==
    /\ HandlerIdle
    /\ text = <<>>
    /\ verdict = None
    /\ systemPrompt = None
    /\ finalSystemPrompt = None

\* from the entry to await stripe.checkout.sessions.create (part_001 46-66)
CheckoutReceive(c) ==
    /\ checkouts[c].pc = "idle"
    /\ \E m \in Methods, b \in CheckoutBodies :
          LET k == [checkouts[c] EXCEPT !.method = m]
          IN  checkouts' = [checkouts EXCEPT ![c] =
                 IF runCorsMiddleware([origin |-> None, method |-> m]).returned
                 THEN CheckoutRespond(k, 200, "")
                 ELSE IF m # "POST"
                 THEN CheckoutRespond(k, 405, "Method not allowed")
                 ELSE IF b = None
                 THEN [k EXCEPT !.pc = "threw"]
                 ELSE IF MissingField(Get(b))
                 THEN CheckoutRespond([k EXCEPT !.body = b], 400,
                                      "Missing domain or priceId")
                 ELSE [k EXCEPT !.pc = "create", !.body = b,
                                !.cleanDomain =
                                    Some(cleanDomain(Get(Get(b).domain)))]]
    /\ UNCHANGED <<now, cachedDb, opened, interactions, licenses, env, reqs,
                   text, verdict, systemPrompt, finalSystemPrompt, hooks, cors,
                   sessions, widget>>

\* stripe.checkout.sessions.create settles (part_001 66-80)
CheckoutCreated(c) ==
    /\ checkouts[c].pc = "create"
    /\ LET id == SessionId(Len(sessions) + 1)
       IN  /\ sessions' = Append(sessions,
                 [id |-> id,
                  metadata |-> [target_domain |-> Get(checkouts[c].cleanDomain)]])
           /\ checkouts' = [checkouts EXCEPT ![c] =
                 CheckoutRespond([@ EXCEPT !.session = Some(id)], 200, "url")]
    /\ UNCHANGED <<now, cachedDb, opened, interactions, licenses, env, reqs,
                   text, verdict, systemPrompt, finalSystemPrompt, hooks, cors,
                   widget>>

CheckoutFailed(c) ==
    /\ checkouts[c].pc = "create"
    /\ checkouts' = [checkouts EXCEPT ![c] = CheckoutRespond(@, 500, "error.message")]
    /\ UNCHANGED <<now, cachedDb, opened, interactions, licenses, env, reqs,
                   text, verdict, systemPrompt, finalSystemPrompt, hooks, cors,
                   sessions, widget>>

\* the provider delivers the completion event of one of its sessions, signed
\* with the webhook secret (part_002 18-30)
HookDeliver(d) ==
    /\ hooks[d].pc = "idle"
    /\ \E i \in 1..Len(sessions) :
          LET payload == [type |-> COMPLETED, id |-> sessions[i].id,
                          target_domain |-> Some(sessions[i].metadata.target_domain),
                          email |-> "a@example.com"]
          IN  hooks' = [hooks EXCEPT ![d] =
                 [@ EXCEPT !.pc = "buffer", !.method = "POST",
                           !.buf = Some(payload),
                           !.sig = Some(Sign(payload, WEBHOOK_SECRET))]]
    /\ UNCHANGED <<now, cachedDb, opened, interactions, licenses, env, reqs,
                   text, verdict, systemPrompt, finalSystemPrompt, cors,
                   checkouts, sessions, widget>>

NextCheckout ==
    \/ \E c \in Checkouts : CheckoutReceive(c)
    \/ \E c \in Checkouts : CheckoutCreated(c)
    \/ \E c \in Checkouts : CheckoutFailed(c)
    \/ \E d \in Deliveries : HookDeliver(d)
    \/ \E d \in Deliveries : HookBuffered(d)
    \/ \E d \in Deliveries : HookConnectResolved(d)
    \/ \E d \in Deliveries : HookConnectRejected(d)
    \/ \E d \in Deliveries : HookInsertResolved(d)
    \/ \E d \in Deliveries : HookInsertRejected(d)

SpecCheckout == InitCheckout /\ [][NextCheckout]_vars

(***************************************************************************)
(* The chat widget (EasyChat.tsx, the component of lines 645-1026).  The   *)
(* handlers are driven whenever the element that carries them is rendered; *)
(* the disabled attribute of the input and of the send button (990, 996),  *)
(* which only removes calls, is not relied on.                             *)
(***************************************************************************)
MaxOpens == 2       \* widget: openChat calls
MaxTimers == 2      \* widget: pending 300 ms timers of closeChat
MaxSends == 2       \* widget: user messages sent

Configs ==
    [apiKey : BOOLEAN, licenseKey : BOOLEAN, proxyUrl : BOOLEAN,
     isPlayground : BOOLEAN]

\* what the visitor can have typed: nothing, blanks, a question
WidgetInputs == {<<>>, <<" ">>, <<"a">>}

validateConfig(config) ==
    LET hasPaidKeys == config.apiKey /\ config.licenseKey
        hasCustomProxy == config.proxyUrl
    IN  IF hasPaidKeys /\ hasCustomProxy
        THEN [isValid |-> FALSE, targetUrl |-> None]
        ELSE IF ~hasPaidKeys /\ ~hasCustomProxy
        THEN IF config.apiKey /\ ~config.licenseKey
             THEN [isValid |-> TRUE, targetUrl |-> None]
             ELSE [isValid |-> FALSE, targetUrl |-> None]
        ELSE [isValid |-> TRUE,
              targetUrl |-> Some(IF hasPaidKeys THEN "OFFICIAL_PROXY_URL"
                                                ELSE "proxyUrl")]

\* fetchChatResponse up to its first await: the request it starts, or the
\* throw of line 845
StartFetch(config, targetUrl) ==
    IF targetUrl # None THEN [stage |-> "fetch", api |-> "proxy"]
    ELSE IF config.apiKey THEN [stage |-> "fetch", api |-> "openai"]
    ELSE [stage |-> "throw", api |-> "none"]

\* the window is rendered (926)
WindowRendered(w) == w.isOpen \/ w.isClosing

\* the launcher is rendered (1010)
LauncherRendered(w) == ~w.isOpen /\ ~w.isClosing

\* a variant that looks at the input only
SendBlocked_IgnoresLoading(w) == Trim(w.input) = <<>>

\* !input.trim() || isLoading (858)
SendBlocked(w) == Trim(w.input) = <<>> \/ w.isLoading

Sent(w) == Cardinality({ i \in 1..Len(w.messages) : w.messages[i] = "user" })

RemoveAt(seq, i) == SubSeq(seq, 1, i - 1) \o SubSeq(seq, i + 1, Len(seq))

\* openChat (850)
openChat(w) ==
    [w EXCEPT !.isOpen = TRUE, !.isClosing = FALSE, !.opens = @ + 1]

\* closeChat (852-855): the timer is never cancelled
closeChat(w) ==
    [w EXCEPT !.isClosing = TRUE, !.timers = Append(@, w.opens)]

\* the try / catch / finally of handleSend (898-907) once the reply of the
\* i-th pending send is known: one message, then isLoading false
Settle(w, i, role) ==
    LET n == w.pending[i].send
    IN  [w EXCEPT !.messages = Append(@, role),
                  !.isLoading = FALSE,
                  !.pending = RemoveAt(@, i),
                  !.sends[n] = [replies |-> Append(@.replies, role),
                                done |-> TRUE]]

\* a send that sets isLoading (864-866, 892-896)
StartSend(w, request) ==
    [w EXCEPT !.input = <<>>,
              !.isLoading = TRUE,
              !.messages = Append(@, "user"),
              !.sends = Append(@, [replies |-> <<>>, done |-> FALSE]),
              !.pending = Append(@, [send |-> Len(w.sends) + 1,
                                     stage |-> request.stage,
                                     api |-> request.api, ok |-> TRUE])]

\* handleSend up to its first await (857-899)
handleSend(w) ==
    IF SendBlocked(w) THEN w
    ELSE IF w.config.isPlayground
    THEN StartSend(w, [stage |-> "demo", api |-> "none"])
    ELSE IF ~validateConfig(w.config).isValid
    THEN [w EXCEPT !.messages = Append(@, "user"),
                   !.notices = @ + 1,
                   !.input = <<>>]
    ELSE StartSend(w, StartFetch(w.config, validateConfig(w.config).targetUrl))

WidgetRest ==
    UNCHANGED <<now, cachedDb, opened, interactions, licenses, env, reqs,
                text, verdict, systemPrompt, finalSystemPrompt, hooks, cors,
                checkouts, sessions>>

InitWidget ==
    /\ now = 0
    /\ cachedDb = None
    /\ opened = 0
    /\ interactions = <<>>
    /\ licenses = <<>>
    /\ env = [MONGODB_URI |-> TRUE, OPENAI_API_KEY |-> TRUE]
    /\ reqs = [r \in Reqs |-> IdleReq]
    /\ hooks = [d \in Deliveries |-> IdleHook]
    /\ cors = IdleCors
    /\ checkouts = [c \in Checkouts |-> IdleCheckout]
    /\ sessions = <<>>
    /\ text = <<>>
    /\ verdict = None
    /\ systemPrompt = None
    /\ finalSystemPrompt = None
    /\ \E c \in Configs : widget = [IdleWidget EXCEPT !.config = c]

\* a click on the launcher (1010-1014)
ClickLauncher ==
    /\ LauncherRendered(widget)
    /\ widget.opens < MaxOpens
    /\ widget' = openChat(widget)
    /\ WidgetRest

\* a click on the close button of the window (937-938)
ClickClose ==
    /\ WindowRendered(widget)
    /\ Len(widget.timers) < MaxTimers
    /\ widget' = closeChat(widget)
    /\ WidgetRest

\* the keydown listener of the document (731-734)
PressEscape ==
    /\ widget.isOpen
    /\ Len(widget.timers) < MaxTimers
    /\ widget' = closeChat(widget)
    /\ WidgetRest

\* the mousedown listener of the document, for a target outside the window
\* and outside the launcher (763-770)
ClickOutside ==
    /\ widget.isOpen
    /\ Len(widget.timers) < MaxTimers
    /\ widget' = closeChat(widget)
    /\ WidgetRest

\* the oldest 300 ms timer of closeChat fires (854)
CloseTimerFires ==
    /\ widget.timers # <<>>
    /\ widget' = [widget EXCEPT !.isOpen = FALSE, !.isClosing = FALSE,
                                !.timers = Tail(@)]
    /\ WidgetRest

\* onChange of the input (987)
TypeInput ==
    /\ WindowRendered(widget)
    /\ \E v \in WidgetInputs \ {widget.input} :
          widget' = [widget EXCEPT !.input = v]
    /\ WidgetRest

\* Enter in the input or a click on the send button (989, 994)
Send ==
    /\ WindowRendered(widget)
    /\ Sent(widget) < MaxSends
    /\ widget' = handleSend(widget)
    /\ WidgetRest

\* await fetch resolves, with an OK or a non-OK status (818, 830)
FetchResolved ==
    /\ \E i \in 1..Len(widget.pending), ok \in BOOLEAN :
          /\ widget.pending[i].stage = "fetch"
          /\ widget' = [widget EXCEPT !.pending[i].stage = "json",
                                      !.pending[i].ok = ok]
    /\ WidgetRest

\* await fetch rejects, or fetchChatResponse threw before it (845): the
\* catch of handleSend (901-907)
FetchRejected ==
    /\ \E i \in 1..Len(widget.pending) :
          /\ widget.pending[i].stage \in {"fetch", "throw"}
          /\ widget' = Settle(widget, i, "system")
    /\ WidgetRest

\* await res.json() resolves (826-828, 841-843): a non-OK status throws,
\* and so does an OpenAI body without choices[0].message
JsonResolved ==
    /\ \E i \in 1..Len(widget.pending), shaped \in BOOLEAN :
          /\ widget.pending[i].stage = "json"
          /\ widget' =
                IF ~widget.pending[i].ok
                THEN Settle(widget, i, "system")
                ELSE IF widget.pending[i].api = "openai" /\ ~shaped
                THEN Settle(widget, i, "system")
                ELSE Settle(widget, i, "assistant")
    /\ WidgetRest

\* await res.json() rejects: the body is not JSON
JsonRejected ==
    /\ \E i \in 1..Len(widget.pending) :
          /\ widget.pending[i].stage = "json"
          /\ widget' = Settle(widget, i, "system")
    /\ WidgetRest

\* the 1500 ms timer of the playground fires (869-877)
DemoTimerFires ==
    /\ \E i \in 1..Len(widget.pending) :
          /\ widget.pending[i].stage = "demo"
          /\ widget' = Settle(widget, i, "assistant")
    /\ WidgetRest

\* a 200 ms timer of the configuration error fires (886)
NoticeTimerFires ==
    /\ widget.notices > 0
    /\ widget' = [widget EXCEPT !.messages = Append(@, "system"),
                                !.notices = @ - 1]
    /\ WidgetRest

\* the steps that handle the reply of a send
Replies ==
    \/ FetchResolved
    \/ FetchRejected
    \/ JsonResolved
    \/ JsonRejected
    \/ DemoTimerFires

NextWidget ==
    \/ ClickLauncher
    \/ ClickClose
    \/ PressEscape
    \/ ClickOutside
    \/ CloseTimerFires
    \/ TypeInput
    \/ Send
    \/ FetchResolved
    \/ FetchRejected
    \/ JsonResolved
    \/ JsonRejected
    \/ DemoTimerFires
    \/ NoticeTimerFires

SpecWidget == InitWidget /\ [][NextWidget]_vars

\* every request and every timer of a send settles
SpecWidgetLive == SpecWidget /\ WF_vars(Replies)

(***************************************************************************)
(* C8.  isValidContent rejects a text if and only if at least one rule     *)
(* matches on the trimmed text: length below 2; only digits and length     *)
(* above 6; some character repeated 5 or more times in a row; length above *)
(* 20 with no whitespace; more than 5 letters of which fewer than 10% are  *)
(* vowels.  Every other text is accepted.                                  *)
(***************************************************************************)
C8_TooShort(t) == Len(t) < 2

C8_NumericSpam(t) == Len(t) > 6 /\ \A i \in 1..Len(t) : t[i] \in Digits

C8_Repeated(t) ==
    \E i, j \in 1..Len(t) :
        /\ j - i + 1 >= 5
        /\ \A k \in i..j : t[k] = t[i]

C8_LongToken(t) == Len(t) > 20 /\ \A i \in 1..Len(t) : t[i] \notin Whitespace

C8_LetterCount(t) == Cardinality({ i \in 1..Len(t) : t[i] \in Letters })

C8_VowelCount(t) == Cardinality({ i \in 1..Len(t) : t[i] \in Vowels })

C8_KeyboardSmash(t) ==
    C8_LetterCount(t) > 5 /\ 100 * C8_VowelCount(t) < 10 * C8_LetterCount(t)

C8_SomeRule(t) ==
    \/ C8_TooShort(t)
    \/ C8_NumericSpam(t)
    \/ C8_Repeated(t)
    \/ C8_LongToken(t)
    \/ C8_KeyboardSmash(t)

C8_RejectsIffSomeRule ==
    verdict # None => (Get(verdict) = FALSE <=> C8_SomeRule(Trim(text)))

(***************************************************************************)
(* C10.  For every caller-supplied systemPrompt, the composed system       *)
(* message is the fixed master instruction, unchanged, followed by the     *)
(* delimiter and then the persona text unchanged (the default persona when *)
(* systemPrompt is absent or empty); the persona text is recovered from    *)
(* the composed prompt as the part after the (first) delimiter, and no     *)
(* persona content alters or precedes the master instruction.              *)
(***************************************************************************)
C10_Persona(sp) ==
    IF sp = None THEN DEFAULT_CONTEXT
    ELSE IF Len(Get(sp)) = 0 THEN DEFAULT_CONTEXT
    ELSE Get(sp)

C10_OccursAt(s, d, i) ==
    i + Len(d) - 1 <= Len(s) /\ \A k \in 1..Len(d) : s[i + k - 1] = d[k]

C10_AfterDelimiter(s) ==
    LET first == CHOOSE i \in 1..Len(s) :
                    /\ C10_OccursAt(s, Delimiter, i)
                    /\ \A j \in 1..(i - 1) : ~C10_OccursAt(s, Delimiter, j)
    IN  SubSeq(s, first + Len(Delimiter), Len(s))

C10_MasterThenPersona ==
    finalSystemPrompt # None =>
        LET f == Get(finalSystemPrompt)
            m == Len(MASTER_INSTRUCTION)
            d == Len(Delimiter)
        IN  /\ SubSeq(f, 1, m) = MASTER_INSTRUCTION
            /\ SubSeq(f, m + 1, m + d) = Delimiter
            /\ SubSeq(f, m + d + 1, Len(f)) = C10_Persona(systemPrompt)
            /\ C10_AfterDelimiter(f) = C10_Persona(systemPrompt)

\* a persona that itself holds the delimiter has been composed
C10_Witness ==
    /\ finalSystemPrompt # None
    /\ systemPrompt = Some(Delimiter)

(***************************************************************************)
(* The chat requests of the claims below.                                  *)
(***************************************************************************)
\* a POST that passed the configuration check: its headers have been read
Chat(q) == q.method = "POST" /\ q.clientIp # None

Answered(q) == q.resp # None

Status(q) == Get(q.resp).status

\* a chat request that presents no key of its own for the upstream, and
\* whose rate-limit check met no storage failure
Licensed(q) == Chat(q) /\ q.headers.custom = None /\ ~q.limitError

\* the request's body has been read and holds a history whose last message
\* passes content validation: nothing but licensing can stop the request
WellFormed(q) ==
    /\ q.body # None
    /\ Get(q.body) # None
    /\ ~InvalidHistory(Get(Get(q.body)).messages)
    /\ LET items == Get(Get(q.body)).messages.items
       IN  ~ContentRejected(items[Len(items)])

ActiveLicenses(key) ==
    { l \in { licenses[i] : i \in 1..Len(licenses) } :
          l.key = key /\ l.status = "active" }

\* every document the program has stored with a denial status
AccessDenialRecords ==
    { interactions[i] : i \in { j \in 1..Len(interactions) :
                                  interactions[j].status \in {"denied", "blocked"} } }
    \cup { l \in { licenses[i] : i \in 1..Len(licenses) } :
              l.status \in {"denied", "blocked"} }

(***************************************************************************)
(* C1.  For any POST chat request that carries no x-license-key header,    *)
(* the response status is 401 and the upstream completion call is never    *)
(* made for that request.  (Stated for the requests that the rate limiter  *)
(* lets through and that are well formed.)                                 *)
(***************************************************************************)
C1_MissingKey401 ==
    \A r \in Reqs :
        LET q == reqs[r]
        IN  (Licensed(q) /\ q.headers.license = None) =>
                /\ q.upstream = None
                /\ (Answered(q) /\ WellFormed(q)) => Status(q) = 401

(***************************************************************************)
(* C2.  For any chat request that presents a license key which is not in   *)
(* the License Store, or whose record is not active, the request is        *)
(* rejected (403, invalid_key) and the upstream completion call is never   *)
(* made for that request.  (Stated for the requests that the rate limiter  *)
(* lets through and that are well formed.)                                 *)
(***************************************************************************)
C2_InvalidKey(q) ==
    q.headers.license # None /\ ActiveLicenses(Get(q.headers.license)) = {}

C2_InvalidKeyRejected ==
    \A r \in Reqs :
        LET q == reqs[r]
        IN  (Licensed(q) /\ C2_InvalidKey(q)) =>
                /\ q.upstream = None
                /\ (Answered(q) /\ WellFormed(q)) => Status(q) = 403

(***************************************************************************)
(* C3.  For a request with an active license: if allowed_domains is empty  *)
(* the request is accepted for any origin; otherwise it is accepted if and *)
(* only if the request origin, after stripping a leading protocol scheme   *)
(* and a trailing slash, contains at least one allowed domain normalised   *)
(* the same way; in every other case it is rejected (403,                  *)
(* domain_not_allowed) and never reaches the upstream.  (Stated for the    *)
(* requests that the rate limiter lets through and that are well formed.)  *)
(***************************************************************************)
C3_Contains(s, d) ==
    \E i \in 1..(Len(s) + 1) :
        i + Len(d) - 1 <= Len(s) /\ SubSeq(s, i, i + Len(d) - 1) = d

C3_DomainAllowed(l, origin) ==
    \/ Len(l.allowed_domains) = 0
    \/ \E i \in 1..Len(l.allowed_domains) :
          C3_Contains(cleanDomain(origin), cleanDomain(l.allowed_domains[i]))

C3_DomainCheck ==
    \A r \in Reqs :
        LET q == reqs[r]
        IN  (Licensed(q) /\ q.headers.license # None) =>
              \A l \in ActiveLicenses(Get(q.headers.license)) :
                /\ ~C3_DomainAllowed(l, Get(q.originUrl)) => q.upstream = None
                /\ (Answered(q) /\ WellFormed(q)) =>
                      (Status(q) = 403 <=> ~C3_DomainAllowed(l, Get(q.originUrl)))

(***************************************************************************)
(* C4.  Every chat request rejected for a licensing reason (missing_key,   *)
(* invalid_key, domain_not_allowed) has an Access Denial Record appended   *)
(* before its response is sent, and a request that passes license          *)
(* validation appends no Access Denial Record.  The requests the license   *)
(* state machine rejects are those of C1, C2 and C3.                       *)
(***************************************************************************)
C4_MustReject(q) ==
    \/ q.headers.license = None
    \/ C2_InvalidKey(q)
    \/ \E l \in ActiveLicenses(Get(q.headers.license)) :
          ~C3_DomainAllowed(l, Get(q.originUrl))

C5_SecondWithinThreshold429 ==
    \A r1, r2 \in Reqs :
        LET q1 == reqs[r1]
            q2 == reqs[r2]
        IN  ( /\ r1 # r2
              /\ Chat(q1) /\ Chat(q2)
              /\ q1.clientIp = q2.clientIp
              /\ Answered(q1) /\ Answered(q2)
              /\ WellFormed(q1) /\ WellFormed(q2)
              /\ ~q1.limitError /\ ~q2.limitError
              /\ Len(interactions) = 2
              /\ now < RATE_LIMIT_MS )
            => (Status(q1) = 429 \/ Status(q2) = 429)

(***************************************************************************)
(* C5, amended.  A chat request whose rate-limit lookup succeeds and       *)
(* finds, for its client IP, a latest Interaction Record timestamped less  *)
(* than 3000 ms before the lookup is answered 429 without an upstream      *)
(* call, and no other request is answered 429; a request whose lookup      *)
(* finds no record, or a latest record 3000 ms old or older, is processed, *)
(* and a processed request whose upstream call returns is answered 200     *)
(* with the reply.                                                         *)
(***************************************************************************)
C5_Young(ip) ==
    \E i \in 1..Len(interactions) :
        /\ interactions[i].client_ip = ip
        /\ \A j \in 1..Len(interactions) :
              interactions[j].client_ip = ip =>
                  interactions[j].timestamp <= interactions[i].timestamp
        /\ now - interactions[i].timestamp < 3000

C5_Step(q, q2) ==
    /\ (q.pc = "rl_find" /\ q2 # q /\ ~q2.limitError /\ C5_Young(Get(q.clientIp)))
          => (q2.pc = "done" /\ Answered(q2) /\ Status(q2) = 429 /\ q2.upstream = None)
    /\ (q.pc = "rl_find" /\ q2 # q /\ ~C5_Young(Get(q.clientIp)))
          => (q2.body # None /\ (Answered(q2) => Status(q2) # 429))
    /\ (~Answered(q) /\ Answered(q2) /\ Status(q2) = 429)
          => (q.pc = "rl_find" /\ C5_Young(Get(q.clientIp)))
    /\ (q2.pc = "done" /\ q2.reply # None)
          => q2.resp = Some(Response(200, "content", REPLY))

C5_RateLimitDecision ==
    [][\A r \in Reqs : C5_Step(reqs[r], reqs'[r])]_vars

\* one request was answered with the reply and a later one from the same
\* address was answered 429
C5_Witness ==
    \E r1, r2 \in Reqs :
        /\ r1 # r2
        /\ reqs[r1].clientIp = reqs[r2].clientIp
        /\ Answered(reqs[r1]) /\ Status(reqs[r1]) = 200 /\ reqs[r1].reply # None
        /\ Answered(reqs[r2]) /\ Status(reqs[r2]) = 429

(***************************************************************************)
(* C6.  If the storage connection or the latest-interaction lookup fails   *)
(* during the rate-limit check, the request is not rejected because of it: *)
(* it continues to body validation, content validation and the upstream    *)
(* call exactly as if no prior interaction existed.                        *)
(***************************************************************************)
C6_Outcome(q) ==
    LET b == Get(q.body)
        items == Get(b).messages.items
        last == items[Len(items)]
    IN  IF b = None
        THEN q.error = Some("TypeError") /\ q.upstream = None
        ELSE IF Get(b).messages.type # "array" \/ Len(items) = 0
        THEN q.resp = Some(Response(400, "error", "Historico de chat invalido."))
             /\ q.upstream = None
        ELSE IF last.role = "user" /\ ~isValidContent(last.content)
        THEN q.resp = Some(Response(200, "content", REFUSAL)) /\ q.upstream = None
        ELSE /\ q.upstream # None
             /\ (Answered(q) => Status(q) \in {200, 500})

C6_FailOpen ==
    \A r \in Reqs :
        LET q == reqs[r]
        IN  q.limitError =>
                /\ q.body # None
                /\ Answered(q) => Status(q) # 429
                /\ C6_Outcome(q)

\* a request whose rate-limit lookup failed has been sent upstream although
\* its address has an interaction record younger than the threshold
C6_Witness ==
    \E r \in Reqs :
        /\ reqs[r].limitError
        /\ reqs[r].pc = "upstream"
        /\ C5_Young(Get(reqs[r].clientIp))

(***************************************************************************)
(* C7.  In every chat request the stages run in a fixed order: the license *)
(* decision is taken only after the rate-limit check has passed, and       *)
(* content validation and the upstream call happen only after the license  *)
(* decision; no request is content-validated or sent upstream before its   *)
(* license decision.                                                       *)
(***************************************************************************)
C7_RateLimitPassed(q) ==
    /\ q.pc \notin {"idle", "rl_connect", "rl_find"}
    /\ Answered(q) => Status(q) # 429

C7_StageOrder ==
    \A r \in Reqs :
        LET q == reqs[r]
        IN  /\ q.usageType # None => C7_RateLimitPassed(q)
            /\ (q.body # None \/ q.upstream # None) => q.usageType # None

(***************************************************************************)
(* C9.  When the latest user message fails content validation, the request *)
(* is answered with status 200 and the canned refusal text, the upstream   *)
(* completion call is never made, and no Interaction Record is appended    *)
(* for that request.                                                       *)
(***************************************************************************)
C9_InvalidUserMessage(q) ==
    /\ q.body # None
    /\ Get(q.body) # None
    /\ Get(Get(q.body)).messages.type = "array"
    /\ LET items == Get(Get(q.body)).messages.items
       IN  /\ Len(items) > 0
           /\ items[Len(items)].role = "user"
           /\ ~isValidContent(items[Len(items)].content)

C9_Step(q, q2) ==
    /\ C9_InvalidUserMessage(q2) =>
          /\ q2.pc = "done"
          /\ q2.resp = Some(Response(200, "content", REFUSAL))
          /\ q2.upstream = None
          \* the step that read the message appended nothing
          /\ q.body = None => interactions' = interactions
    \* and an answered request takes no further step
    /\ q.pc = "done" => q2 = q

C9_SoftRefusal ==
    [][\A r \in Reqs : C9_Step(reqs[r], reqs'[r])]_vars

\* a refused request, while the other request has logged an interaction
C9_Witness ==
    \E r \in Reqs :
        /\ C9_InvalidUserMessage(reqs[r])
        /\ reqs[r].resp = Some(Response(200, "content", REFUSAL))
        /\ Len(interactions) = 1

(***************************************************************************)
(* C11.  For any request body, the message list passed to the upstream     *)
(* model is the composed system message followed by the non-system         *)
(* messages of the conversation history: exactly one system-role message   *)
(* reaches the upstream, it is the composed one, and it comes first.       *)
(***************************************************************************)
C11_IsNonSystem(m) == m.role # "system"

C11_SystemCount(msgs) ==
    Cardinality({ i \in 1..Len(msgs) : msgs[i].role = "system" })

C11_ComposedSystemFirst ==
    \A r \in Reqs :
        LET q == reqs[r]
        IN  q.upstream # None =>
                LET b == Get(Get(q.body))
                    msgs == Get(q.upstream).messages
                IN  /\ msgs = << Msg("system", ComposePrompt(b.systemPrompt)) >>
                                 \o SelectSeq(b.messages.items, C11_IsNonSystem)
                    /\ C11_SystemCount(msgs) = 1

(***************************************************************************)
(* C12.  When the upstream completion call fails, the caller receives a    *)
(* 500 response carrying the upstream error, and an Interaction Record     *)
(* with status error is appended when storage is available; if storage     *)
(* fails while that record is written, the caller still receives the same  *)
(* 500 response, and the handler always ends with that response.           *)
(***************************************************************************)
C12_Response == Response(500, "error", "Erro interno no Proxy: upstream error")

C12_IsErrorRecord(rec, q) ==
    /\ rec.status = "error"
    /\ rec.error_message = Some("upstream error")
    /\ rec.client_ip = Get(q.clientIp)

C12_Step(q, q2) ==
    /\ (q.pc = "upstream" /\ q2.pc # "upstream" /\ q2.reply = None) =>
          q2.error = Some("upstream error")
    /\ q2.error = Some("upstream error") =>
          /\ q2.pc \in {"err_connect", "err_insert", "done"}
          /\ q2.pc = "done" => q2.resp = Some(C12_Response)
          /\ (q.pc = "err_insert" /\ q2.pc = "done") =>
                \/ interactions' = interactions
                \/ /\ Len(interactions') = Len(interactions) + 1
                   /\ SubSeq(interactions', 1, Len(interactions)) = interactions
                   /\ C12_IsErrorRecord(interactions'[Len(interactions')], q)
          /\ (q.pc = "err_connect" /\ q2.pc = "done") =>
                interactions' = interactions

C12_UpstreamError500 ==
    [][\A r \in Reqs : C12_Step(reqs[r], reqs'[r])]_vars

\* both requests failed upstream and were answered 500; the error record of
\* one was stored, the storage failed for the other
C12_Witness ==
    /\ \A r \in Reqs :
          /\ reqs[r].error = Some("upstream error")
          /\ reqs[r].resp = Some(C12_Response)
    /\ Len(interactions) = 1
    /\ interactions[1].status = "error"

(***************************************************************************)
(* C13.  When the upstream call succeeds but appending the success         *)
(* Interaction Record fails, the caller still receives status 200 with     *)
(* the model's reply: the logging failure changes neither the status nor   *)
(* the body of the response.                                               *)
(***************************************************************************)
C13_ReplySurvivesLogFailure ==
    \A r \in Reqs :
        LET q == reqs[r]
        IN  (q.reply # None /\ Answered(q)) =>
                q.resp = Some(Response(200, "content", REPLY))

\* a request was answered with the reply although nothing could be logged
C13_Witness ==
    \E r \in Reqs :
        /\ reqs[r].reply # None
        /\ reqs[r].resp = Some(Response(200, "content", REPLY))
        /\ interactions = <<>>

(***************************************************************************)
(* C14.  When a required environment secret (database connection string    *)
(* or upstream API key) is missing, a POST chat request is answered 500     *)
(* before any identity resolution, storage access, body parsing or         *)
(* upstream call takes place.                                              *)
(***************************************************************************)
C14_SecretMissing == ~env.MONGODB_URI \/ ~env.OPENAI_API_KEY

C14_ConfigFailsFast ==
    C14_SecretMissing =>
        /\ cachedDb = None /\ opened = 0 /\ interactions = <<>>
        /\ \A r \in Reqs :
              LET q == reqs[r]
              IN  q.method = "POST" =>
                     /\ q.resp = Some(Response(500, "error", "Server configuration error."))
                     /\ q.usageType = None /\ q.targetApiKey = None
                     /\ q.clientIp = None /\ q.originUrl = None
                     /\ q.body = None /\ q.upstream = None

\* the upstream API key is missing and a POST has been answered
C14_Witness ==
    /\ env.MONGODB_URI /\ ~env.OPENAI_API_KEY
    /\ \E r \in Reqs : reqs[r].method = "POST" /\ Answered(reqs[r])

(***************************************************************************)
(* C15.  Any POST chat request whose body is malformed (absent body, or a  *)
(* body whose messages field is missing, not an array, or an empty array)  *)
(* is answered 400, with no upstream call and no Interaction Record.       *)
(***************************************************************************)
C15_Malformed(q) ==
    /\ q.body # None
    /\ \/ Get(q.body) = None
       \/ InvalidHistory(Get(Get(q.body)).messages)

C15_Malformed400 ==
    \A r \in Reqs :
        LET q == reqs[r]
        IN  C15_Malformed(q) =>
                /\ q.pc = "done"
                /\ Status(q) = 400
                /\ q.upstream = None
                /\ q.logTs = None

(***************************************************************************)
(* C16.  A webhook request whose signature cannot be verified against the  *)
(* webhook secret is answered 400 and never leads to a License record      *)
(* being inserted; in every reachable state each License record was        *)
(* created while handling an event that passed signature verification.     *)
(***************************************************************************)
\* the delivery's signature was made for its payload with the webhook secret
C16_Verifiable(h) ==
    /\ h.sig # None
    /\ Get(h.sig).payload = Get(h.buf)
    /\ Get(h.sig).secret = WEBHOOK_SECRET

\* a POST delivery whose body has been read
C16_Checked(h) == h.method = "POST" /\ h.pc \notin {"idle", "buffer"}

C16_UnverifiedNeverMints ==
    /\ \A d \in Deliveries :
          LET h == hooks[d]
          IN  (C16_Checked(h) /\ ~C16_Verifiable(h)) =>
                 /\ h.pc = "done"
                 /\ h.resp = Some([status |-> 400, body |-> "Webhook Error"])
                 /\ h.event = None /\ h.key = None
    /\ \A i \in 1..Len(licenses) :
          \E d \in Deliveries :
             /\ C16_Checked(hooks[d]) /\ C16_Verifiable(hooks[d])
             /\ hooks[d].key = Some(licenses[i].key)
             /\ Get(hooks[d].buf).id = licenses[i].stripe_session_id

\* one delivery was refused for its signature although it carries a
\* signature made with the webhook secret for another payload, and the
\* other delivery issued a license
C16_Witness ==
    /\ Len(licenses) = 1
    /\ \E d \in Deliveries :
          /\ C16_Checked(hooks[d])
          /\ hooks[d].sig # None
          /\ Get(hooks[d].sig).secret = WEBHOOK_SECRET
          /\ hooks[d].resp = Some([status |-> 400, body |-> "Webhook Error"])

(***************************************************************************)
(* C17.  For every payment session, after any sequence of verified         *)
(* checkout-completed webhook deliveries (including a repeated delivery of *)
(* the same event), the License Store holds exactly one License record     *)
(* with that stripe_session_id.                                            *)
(***************************************************************************)
\* the delivery was a verified checkout-completed event with a target
\* domain, and its handler has acknowledged it
C17_Completed(h) ==
    /\ h.pc = "done"
    /\ h.event # None
    /\ Get(h.event).type = COMPLETED
    /\ HasTargetDomain(Get(h.event))

C17_LicensesOf(session) ==
    { i \in 1..Len(licenses) : licenses[i].stripe_session_id = session }

C17_OneLicensePerSession ==
    \A d \in Deliveries :
        C17_Completed(hooks[d]) =>
            Cardinality(C17_LicensesOf(Get(hooks[d].event).id)) = 1

(***************************************************************************)
(* C18.  In every reachable state of the License Store no two License      *)
(* records have the same key, and the key of a record never changes after  *)
(* it has been inserted.                                                   *)
(***************************************************************************)
C18_UniqueKeys(store) ==
    \A i, j \in 1..Len(store) : store[i].key = store[j].key => i = j

C18_KeysKept(old, new) ==
    /\ Len(new) >= Len(old)
    /\ \A i \in 1..Len(old) : new[i].key = old[i].key

C19_AllowList ==
    { <<"https://", "easychat.ia.br">>,
      <<"https://", "www.", "easychat.ia.br">>,
      <<"https://", "easychat-landing-page.vercel.app">>,
      <<"http://", "localhost", ":5173">>,
      <<"http://", "localhost", ":8080">>,
      <<"http://", "localhost", ":3000">> }

C19_Listed(origin) == origin # None /\ Get(origin) \in C19_AllowList

C19_ExactMatchOnly ==
    cors.res # None =>
        LET origin == cors.req.origin
            res == Get(cors.res)
        IN  /\ res.allowCredentials = "true"
            /\ C19_Listed(origin) => res.allowOrigin = Get(origin)
            /\ ~C19_Listed(origin) => res.allowOrigin = <<"null">>
            \* the request's origin is echoed exactly when it is listed
            /\ (origin # None /\ res.allowOrigin = Get(origin)) => C19_Listed(origin)

(***************************************************************************)
(* C20.  getClientIp returns the first comma-separated value of the        *)
(* forwarded-for header when that header is present, otherwise the         *)
(* transport-level peer address, otherwise the sentinel 'unknown'; it      *)
(* never returns an empty identity, whatever the header values are.        *)
(***************************************************************************)
C20_FirstValue(s) ==
    LET commas == { i \in 1..Len(s) : s[i] = "," }
    IN  IF commas = {} THEN s
        ELSE SubSeq(s, 1, (CHOOSE i \in commas : \A j \in commas : i <= j) - 1)

\* the value without the blanks around it
C20_Stripped(s) ==
    LET solid == { i \in 1..Len(s) : s[i] # " " }
    IN  IF solid = {} THEN <<>>
        ELSE SubSeq(s, CHOOSE i \in solid : \A j \in solid : i <= j,
                       CHOOSE i \in solid : \A j \in solid : i >= j)

C20_Identity ==
    LET q == reqs["r1"]
        h == q.headers
    IN  (q.pc = "idle" /\ q.clientIp # None) =>
            /\ Get(q.clientIp) # <<>>
            /\ h.forwarded # None =>
                  Get(q.clientIp) = C20_Stripped(C20_FirstValue(Get(h.forwarded)))
            /\ (h.forwarded = None /\ h.remote # None /\ Get(h.remote) # <<>>) =>
                  Get(q.clientIp) = Get(h.remote)
            /\ (h.forwarded = None /\ (h.remote = None \/ Get(h.remote) = <<>>)) =>
                  Get(q.clientIp) = <<"unknown">>

(***************************************************************************)
(* C21.  Two chat requests from the same client IP that run concurrently   *)
(* can both pass the rate-limit check: a request passes the check exactly  *)
(* on what the log holds when it reads it, and a request appends its own   *)
(* record only after its upstream call has settled, so there is a          *)
(* reachable interleaving in which both read the latest Interaction Record *)
(* before either appends its own, and both reach the upstream call.        *)
(***************************************************************************)
C21_HasYoungRecord(ip) ==
    \E i \in 1..Len(interactions) :
        /\ interactions[i].client_ip = ip
        /\ now - interactions[i].timestamp < 3000

\* the lookup of q returned and q went on to its body
C21_Passes(q, q2) ==
    /\ q.pc = "rl_find" /\ q2.pc # "rl_find"
    /\ ~q2.limitError
    /\ q2.body # None

C21_ReadThenWrite ==
    [][/\ \A r \in Reqs :
             C21_Passes(reqs[r], reqs'[r]) =>
                 ~C21_HasYoungRecord(Get(reqs[r].clientIp))
       /\ interactions' # interactions =>
             \E r \in Reqs :
                 /\ reqs[r].pc \in {"log_insert", "err_insert"}
                 /\ reqs'[r].pc = "done"
                 /\ Len(interactions') = Len(interactions) + 1]_vars

\* both requests come from one address, both lookups succeeded, and both
\* are waiting for the upstream call at a time inside one threshold
C21_Witness ==
    /\ reqs["r1"].clientIp = reqs["r2"].clientIp
    /\ \A r \in Reqs :
          /\ reqs[r].pc = "upstream"
          /\ ~reqs[r].limitError
    /\ now < 3000

(***************************************************************************)
(* C22.  connectToDatabase never caches a failed connection: after any     *)
(* sequence of successful and failed connection attempts, cachedDb is      *)
(* either null or a handle obtained from a successful connect, and a call  *)
(* made after a failed attempt tries to connect again instead of returning *)
(* a broken handle.                                                        *)
(***************************************************************************)
C22_Connecting == {"rl_connect", "log_connect", "err_connect"}

C22_Querying == {"rl_find", "log_insert", "err_insert"}

C22_Step(q, q2) ==
    \* a caller goes on to its query without connecting only with a handle
    /\ (q.pc \notin C22_Connecting /\ q2.pc \in C22_Querying /\ q2.pc # q.pc)
          => cachedDb # None
    \* without a handle the caller connects
    /\ (q.pc \notin C22_Connecting /\ q2.pc \in C22_Querying /\ q2.pc # q.pc)
          => cachedDb' = cachedDb
    /\ (q.pc \notin C22_Connecting /\ q2.pc \in C22_Connecting) => cachedDb = None

C22_NoFailedHandleCached ==
    [][/\ cachedDb' # cachedDb =>
             /\ opened' = opened + 1
             /\ cachedDb' = Some(opened')
       /\ opened' = opened => cachedDb' = cachedDb
       /\ cachedDb' # None => Get(cachedDb') \in 1..opened'
       /\ \A r \in Reqs : C22_Step(reqs[r], reqs'[r])]_vars

\* the only request so far has been through the rate limiter without a
\* handle being cached, so its connection attempt failed, and it is
\* connecting again for its log
C22_Witness ==
    /\ reqs["r2"].pc = "idle"
    /\ reqs["r1"].pc = "log_connect"
    /\ reqs["r1"].limitError
    /\ cachedDb = None

(***************************************************************************)
(* C23.  The storage handle is a singleton under concurrent first use:     *)
(* when several requests call connectToDatabase before any connection      *)
(* exists, exactly one storage connection is opened in the process and     *)
(* every caller receives that same handle.                                 *)
(***************************************************************************)
C23_Singleton ==
    /\ opened <= 1
    /\ cachedDb # None => cachedDb = Some(1)

(***************************************************************************)
(* C24.  The interaction log is append-only and holds one record per       *)
(* upstream attempt: every chat request that reached the upstream call     *)
(* appends exactly one Interaction Record when storage is available        *)
(* (status success if the call returned, status error if it failed), no    *)
(* request appends more than one, and no handler updates or deletes an     *)
(* existing record.                                                        *)
(***************************************************************************)
C24_Appended ==
    /\ Len(interactions') = Len(interactions) + 1
    /\ SubSeq(interactions', 1, Len(interactions)) = interactions

\* the step is the insert of q settling
C24_Logs(q, q2) == q.pc \in {"log_insert", "err_insert"} /\ q2.pc = "done"

C24_Step(q, q2) ==
    /\ (C24_Logs(q, q2) /\ interactions' # interactions) =>
          \* the record stands for an upstream attempt, with its outcome
          /\ q.upstream # None
          /\ interactions'[Len(interactions')].status =
                IF q.reply # None THEN "success" ELSE "error"
    \* a request that has logged takes no further step
    /\ q.pc = "done" => q2 = q

C24_OneRecordPerAttempt ==
    [][/\ interactions' = interactions \/ C24_Appended
       /\ interactions' # interactions =>
             \E r \in Reqs : C24_Logs(reqs[r], reqs'[r])
       /\ \A r \in Reqs : C24_Step(reqs[r], reqs'[r])]_vars

(***************************************************************************)
(* C26.  A chat request answered with 429, 400, 405, the configuration 500 *)
(* or the soft content refusal leaves the interactions collection          *)
(* unchanged; only requests that reached the upstream call (success or     *)
(* error record) change what the rate limiter decides for later requests   *)
(* from that IP.                                                           *)
(***************************************************************************)
C26_EarlyAnswer(q) ==
    /\ Answered(q)
    /\ \/ Status(q) \in {429, 400, 405}
       \/ q.resp = Some(Response(500, "error", "Server configuration error."))
       \/ q.resp = Some(Response(200, "content", REFUSAL))

C26_OnlyUpstreamAttemptsCount ==
    [][/\ \A r \in Reqs :
             (~Answered(reqs[r]) /\ C26_EarlyAnswer(reqs'[r])) =>
                 interactions' = interactions
       /\ interactions' # interactions =>
             \E r \in Reqs : /\ reqs[r].upstream # None
                             /\ ~Answered(reqs[r]) /\ Answered(reqs'[r])]_vars

(***************************************************************************)
(* C27.  Content validation is applied exactly when the last element of    *)
(* messages has role 'user', and only to that element: a request whose     *)
(* last message has any other role reaches the upstream call without any   *)
(* content check, and earlier messages of the history are never validated. *)
(***************************************************************************)
\* the body of q has been read and holds a history
C27_History(q) ==
    /\ q.body # None
    /\ Get(q.body) # None
    /\ Get(Get(q.body)).messages.type = "array"
    /\ Len(Get(Get(q.body)).messages.items) > 0

C27_OnlyLastUserMessage ==
    \A r \in Reqs :
        LET q == reqs[r]
        IN  C27_History(q) =>
                LET items == Get(Get(q.body)).messages.items
                    last == items[Len(items)]
                IN  IF last.role = "user" /\ ~isValidContent(last.content)
                    THEN /\ q.resp = Some(Response(200, "content", REFUSAL))
                         /\ q.upstream = None
                    ELSE /\ q.upstream # None
                         /\ Get(q.upstream).messages[Len(items) + 1] = last

\* a history whose last message, of the assistant, and whose earlier user
\* message both fail validation has been sent upstream
C27_Witness ==
    \E r \in Reqs :
        /\ C27_History(reqs[r])
        /\ reqs[r].upstream # None
        /\ LET items == Get(Get(reqs[r].body)).messages.items
           IN  /\ Len(items) = 2
               /\ items[1].role = "user" /\ ~isValidContent(items[1].content)
               /\ items[2].role = "assistant" /\ ~isValidContent(items[2].content)

(***************************************************************************)
(* C28.  The webhook handler sends the `received: true` acknowledgement    *)
(* for a verified checkout-completed event with a target domain only after *)
(* the License record has been inserted; if the storage connection or the  *)
(* insert fails, no success acknowledgement is sent and that delivery      *)
(* inserts no License record: the License records of a session are as many *)
(* as its acknowledged deliveries.                                         *)
(***************************************************************************)
\* the delivery carries a verified checkout-completed event with a target
\* domain
C28_Issuing(h) ==
    /\ h.event # None
    /\ Get(h.event).type = "checkout.session.completed"
    /\ Get(h.event).target_domain \notin {None, Some(<<>>)}

C28_Acknowledged(h) ==
    h.resp = Some([status |-> 200, body |-> "received"])

C28_SessionIds == { e.id : e \in Events }

C28_RecordsOf(session) ==
    { i \in 1..Len(licenses) : licenses[i].stripe_session_id = session }

C28_AcknowledgedFor(session) ==
    { d \in Deliveries : /\ C28_Issuing(hooks[d])
                         /\ Get(hooks[d].event).id = session
                         /\ C28_Acknowledged(hooks[d]) }

C28_AckOnlyAfterInsert ==
    /\ \A d \in Deliveries :
          hooks[d].pc = "threw" => (C28_Issuing(hooks[d]) /\ hooks[d].resp = None)
    /\ \A session \in C28_SessionIds :
          Cardinality(C28_RecordsOf(session))
             = Cardinality(C28_AcknowledgedFor(session))

\* the claim as stated: after a failure no License record exists for the
\* session of the failed delivery
C28_NoRecordForSession ==
    \A d \in Deliveries :
        LET h == hooks[d]
        IN  C28_Issuing(h) =>
               /\ C28_Acknowledged(h) =>
                     C28_RecordsOf(Get(h.event).id) # {}
               /\ h.pc = "threw" =>
                     /\ h.resp = None
                     /\ C28_RecordsOf(Get(h.event).id) = {}

\* the insert of one delivery failed and another delivery of the same
\* session was acknowledged
C28_Witness ==
    \E d, d2 \in Deliveries :
        /\ hooks[d].pc = "threw" /\ hooks[d].key # None
        /\ C28_Issuing(hooks[d2]) /\ C28_Acknowledged(hooks[d2])
        /\ Get(hooks[d2].event).id = Get(hooks[d].event).id
        /\ Len(licenses) = 1

(***************************************************************************)
(* C25.  End to end, the domain submitted to checkout-session creation is  *)
(* stored in the session metadata with a leading http:// or https:// and a *)
(* trailing slash removed, and the license issued from the verified        *)
(* completion event of that session has status active and allowed_domains  *)
(* equal to that normalised domain followed by 'localhost' and             *)
(* '127.0.0.1'.                                                            *)
(***************************************************************************)
C25_WithoutScheme(d) ==
    IF Len(d) > 0 /\ d[1] \in {"https://", "http://"}
    THEN SubSeq(d, 2, Len(d)) ELSE d

\* the last character is a slash when the last piece is one or ends in one
C25_WithoutSlash(d) ==
    IF Len(d) = 0 THEN d
    ELSE LET front == SubSeq(d, 1, Len(d) - 1)
         IN  CASE d[Len(d)] = "/" -> front
               [] d[Len(d)] = "https://" -> front \o <<"https:/">>
               [] d[Len(d)] = "http://" -> front \o <<"http:/">>
               [] OTHER -> d

C25_Normalised(d) == C25_WithoutSlash(C25_WithoutScheme(d))

\* the domain submitted by the checkout that created the session
C25_Submitted(c) == Get(Get(checkouts[c].body).domain)

C29_AtMostOneInFlight ==
    /\ Len(widget.pending) <= 1
    /\ widget.isLoading <=> widget.pending # <<>>

C29_OneReplyPerSend ==
    \A n \in 1..Len(widget.sends) :
       IF widget.sends[n].done
       THEN /\ Len(widget.sends[n].replies) = 1
            /\ widget.sends[n].replies[1] \in {"assistant", "system"}
       ELSE widget.sends[n].replies = <<>>

C29_NothingWhileLoading ==
    widget.isLoading =>
       /\ Len(widget'.sends) = Len(widget.sends)
       /\ Len(widget'.pending) <= Len(widget.pending)
       /\ Sent(widget') = Sent(widget)

C29_OneRequestAtATime ==
    /\ [](C29_AtMostOneInFlight /\ C29_OneReplyPerSend)
    /\ [][C29_NothingWhileLoading]_vars
    /\ widget.isLoading ~> ~widget.isLoading

\* two sends have been answered, one with an error and one with a reply
C29_Witness ==
    /\ Len(widget.sends) = 2
    /\ widget.sends[1].done /\ widget.sends[1].replies = <<"system">>
    /\ widget.sends[2].done /\ widget.sends[2].replies = <<"assistant">>
    /\ ~widget.isLoading

(***************************************************************************)
(* C30.  In the chat widget, once openChat has run the window stays open   *)
(* until a close action that happens after that open: no 300 ms timer      *)
(* scheduled by a closeChat call made before the open ever sets isOpen to  *)
(* false.                                                                  *)
(***************************************************************************)
C30_ClosedByTimer == widget.isOpen /\ ~widget'.isOpen

C30_NoStaleTimerCloses ==
    [][C30_ClosedByTimer => Head(widget.timers) = widget.opens]_vars

=============================================================================
